---- MODULE Spec2Model ----
(***************************************************************************)
(* A model of sonar.py: the per-user digest cycle (process_user_data), the *)
(* window computation (compute_weekly_range), the bounded-retry search     *)
(* (search_arxiv_api) and the __main__ batch loop over user YAML files.    *)
(*                                                                         *)
(* Time is counted in whole seconds.  A datetime is a natural number; a    *)
(* string is a record [kind, t] so that strptime and strftime are real     *)
(* conversions: strptime accepts the canonical text and the unpadded text  *)
(* of an instant, rejects other text with ValueError and rejects a value   *)
(* that is not a string with TypeError; strftime always produces the       *)
(* canonical text.                                                         *)
(***************************************************************************)
EXTENDS Integers, Sequences, FiniteSets, TLC

\* ------------------------------------------------------------------ bounds
\* How many times the program is started (cron) in one behaviour.
MaxRuns == 2
\* The clock value of the first start.
ClockStart == 700000
\* The largest instant a datetime can hold (datetime.max), on the model's scale.
DatetimeMax == 900000
\* How many entries the feed of a successful response may carry.
MaxEntries == 1
\* The same where the feed is what varies, and the range of published instants.
MaxFeedLen == 2
MaxPublished == 2

\* -------------------------------------------------------- program constants
\* range(3): the number of HTTP attempts.
MaxAttempts == 3
\* time.sleep(3) before every request.
SleepSeconds == 3
\* timedelta(seconds=1)
OneSecond == 1
\* timedelta(days=7), in seconds.
SevenDays == 604800

\* ------------------------------------------------------------- the file system
\* The entries os.listdir returns, in the order it returns them.
Listing ==
    << [stem |-> "alice", ext |-> ".yaml"],
       [stem |-> "notes", ext |-> ".txt"],
       [stem |-> "bob",   ext |-> ".yaml"] >>

\* filename.endswith(".yaml")
EndsWithYaml(filename) == filename.ext = ".yaml"

UserFiles == { Listing[i].stem : i \in { j \in 1..Len(Listing) : EndsWithYaml(Listing[j]) } }

\* A path given to --user-file that names no file.
NoSuchFile == "nosuch"

\* ------------------------------------------------------------------- values
\* A value as yaml.safe_load returns it for the key last_run.
Val(k, t) == [kind |-> k, t |-> t]
Absent     == Val("absent", 0)        \* key missing, or null
EmptyStr   == Val("str_empty", 0)     \* ""
GarbageStr == Val("str_garbage", 0)   \* text that is no timestamp
Canon(t)   == Val("str_canon", t)     \* "YYYY-MM-DD HH:MM:SS"
Loose(t)   == Val("str_loose", t)     \* "YYYY-M-D H:M:S", fields not zero padded
DtObject(t) == Val("datetime", t)     \* an unquoted YAML timestamp: a datetime object
IntValue   == Val("int", 20240105)    \* an unquoted number

\* What a user file may hold when the program first sees it.
InitialLastRuns ==
    { Absent, EmptyStr, GarbageStr, IntValue,
      Canon(ClockStart - 10), Loose(ClockStart - 10), DtObject(ClockStart - 10),
      Canon(DatetimeMax) }

\* The keys of a user record other than last_run, with their values: the
\* three the program reads and one it does not know.
FullFields ==
    [k \in {"user", "email_address", "search_query", "note"} |->
        CASE k = "user" -> "Ada"
          [] k = "email_address" -> "ada@example.org"
          [] k = "search_query" -> "cat:math.CO"
          [] OTHER -> "weekly"]

\* A record without the key "user".
PartialFields == [k \in DOMAIN FullFields \ {"user"} |-> FullFields[k]]

\* user_data["user"], user_data["email_address"], user_data["search_query"]
RequiredKeys == {"user", "email_address", "search_query"}

\* A document: the parse failed, the document is empty (None), or a mapping.
Doc(d, c, lr) ==
    [doc |-> d, complete |-> c, last_run |-> lr,
     fields |-> IF d # "record" THEN << >> ELSE IF c THEN FullFields ELSE PartialFields]
BadYaml    == Doc("badyaml", FALSE, Absent)
EmptyDoc   == Doc("empty", FALSE, Absent)
Incomplete == Doc("record", FALSE, Absent)   \* a required key is missing
Record(lr) == Doc("record", TRUE, lr)

InitialDocs == { BadYaml, EmptyDoc, Incomplete } \cup { Record(lr) : lr \in InitialLastRuns }

\* ------------------------------------------------------------------- state
VARIABLES
    disk,       \* user file -> the document stored in it
    clock,      \* datetime.now(), whole seconds
    runs,       \* how many times the program was started
    pc,         \* position of the running program
    mode,       \* "dir" (--users-dir) or "file" (--user-file)
    cli,        \* the flags as given on the command line
    args,       \* args.test, args.print_only, args.no_update as the program holds them
    idx,        \* position of the for loop in Listing
    user_data,  \* the loaded record: [file, last_run, has_filepath]
    user_file,  \* the path given to --user-file ("" in directory mode)
    window,     \* date_from, date_to of the cycle
    attempt,    \* loop variable of search_arxiv_api
    response,   \* what requests.get returned last
    last_ok,    \* user file -> date_to of its last cycle that delivered and persisted
    undelivered, \* user file -> window of its last cycle, if the delivery of it failed
    cyc,        \* what the current cycle did
    error       \* the exception that ended the process ("none" otherwise)

vars == << disk, clock, runs, pc, mode, cli, args, idx, user_data, user_file,
           window, attempt, response, last_ok, undelivered, cyc, error >>

Flags == [test : BOOLEAN, print_only : BOOLEAN, no_update : BOOLEAN]

NoUser == [file |-> "", complete |-> FALSE, last_run |-> Absent, has_filepath |-> FALSE,
           fields |-> << >>]
NoWindow == [date_from |-> Absent, date_to |-> Absent]

\* An Atom entry, as far as the program reads it apart from its texts: the
\* published instant, the term of arxiv:primary_category and the terms of the
\* category elements in document order.
Categories == {"math.CO", "cs.DM"}
TermLists ==
    { << >>, <<"math.CO">>, <<"cs.DM">>, <<"math.CO", "cs.DM">>, <<"cs.DM", "math.CO">> }
EntryBody(p, c, ts) == [published |-> p, primary |-> c, terms |-> ts]
EntryBodies == { EntryBody(p, c, ts) : p \in 1..MaxPublished, c \in Categories, ts \in TermLists }

\* The feeds of at most n entries; the id of an entry is its place in the feed.
FeedsOver(bodies, n) ==
    UNION { { [i \in 1..k |-> [link |-> i, published |-> b[i].published,
                                primary |-> b[i].primary, terms |-> b[i].terms]]
              : b \in [1..k -> bodies] } : k \in 0..n }

\* What requests.get gives: a status with a body, or an exception.
Resp(s, b, n) == [status |-> s, body |-> b, entries |-> n]
NoResponse == Resp("none", "none", << >>)
Failures ==
    { Resp("200", "malformed", << >>), Resp("503", "none", << >>),
      Resp("exception", "none", << >>) }
Responses ==
    { Resp("200", "feed", f) : f \in FeedsOver({EntryBody(1, "math.CO", <<"math.CO">>)}, MaxEntries) }
        \cup Failures
\* Successful responses with any feed.
FeedResponses == { Resp("200", "feed", f) : f \in FeedsOver(EntryBodies, MaxFeedLen) }

\* The record of one cycle, reset when a user file is opened.
NewCycle(f) ==
    [ file       |-> f,
      before     |-> IF f \in UserFiles THEN disk[f] ELSE BadYaml,  \* the file as opened
      prev_to    |-> IF f \in UserFiles THEN last_ok[f] ELSE Absent,
      prev_failed |-> IF f \in UserFiles THEN undelivered[f] ELSE NoWindow,
      range_now  |-> 0,         \* the clock read by compute_weekly_range
      range_src  |-> Absent,    \* the last_run value it was given
      ranged     |-> FALSE,     \* compute_weekly_range returned
      requests   |-> 0,         \* HTTP requests made
      sleeps     |-> 0,         \* time.sleep calls made
      got200     |-> FALSE,     \* a request returned status 200
      after200   |-> 0,         \* requests made after the first 200
      body       |-> "none",    \* body of the 200 response: "feed", "malformed"
      search     |-> "none",    \* "returned", "unavailable", "parse_error"
      entries    |-> 0,         \* results returned
      results    |-> << >>,     \* search_results
      message    |-> [blocks |-> << >>, no_new |-> FALSE],  \* the composed body
      printed    |-> 0,         \* messages printed
      smtp       |-> 0,         \* SMTP connections opened
      email_sent |-> "unset",   \* "true", "false"
      persist_now |-> 0,        \* the clock read when last_run is set
      refused    |-> FALSE,     \* open(filepath, "w") raised
      written    |-> FALSE,     \* the user file was rewritten
      ended      |-> "no" ]     \* "returned", "caught", "raised"

Init ==
    /\ disk \in [UserFiles -> InitialDocs]
    /\ clock = ClockStart
    /\ runs = 0
    /\ pc = "idle"
    /\ mode = "dir"
    /\ cli = [test |-> FALSE, print_only |-> FALSE, no_update |-> FALSE]
    /\ args = cli
    /\ idx = 0
    /\ user_data = NoUser
    /\ user_file = ""
    /\ window = NoWindow
    /\ attempt = 0
    /\ response = NoResponse
    /\ last_ok = [f \in UserFiles |-> Absent]
    /\ undelivered = [f \in UserFiles |-> NoWindow]
    /\ cyc = NewCycle("")
    /\ error = "none"

\* ------------------------------------------------------------ pure functions
\* bool(value), as `if last_run_datetime_str:` takes it.
Truthy(v) == v.kind \notin {"absent", "str_empty"}

\* datetime.strptime(value, "%Y-%m-%d %H:%M:%S")
strptime(v) ==
    IF v.kind \in {"str_canon", "str_loose"} THEN [err |-> "none", t |-> v.t]
    ELSE IF v.kind \in {"str_empty", "str_garbage"} THEN [err |-> "ValueError", t |-> 0]
    ELSE [err |-> "TypeError", t |-> 0]

\* value.strftime("%Y-%m-%d %H:%M:%S")
strftime(t) == Canon(t)

\* datetime + timedelta(seconds=n): OverflowError past datetime.max.
AddSeconds(t, n) ==
    IF t + n > DatetimeMax THEN [err |-> "OverflowError", t |-> 0]
    ELSE [err |-> "none", t |-> t + n]

Range(from, to) == [raised |-> "none", date_from |-> strftime(from), date_to |-> strftime(to)]
Raised(e) == [raised |-> e, date_from |-> Absent, date_to |-> Absent]

\* compute_weekly_range with the second not added to the parsed watermark.
compute_weekly_range_NoStep(last_run_datetime_str, now) ==
    IF Truthy(last_run_datetime_str)
    THEN LET last_run_datetime == strptime(last_run_datetime_str)
         IN  IF last_run_datetime.err = "ValueError" THEN Range(now - SevenDays, now)
             ELSE IF last_run_datetime.err # "none" THEN Raised(last_run_datetime.err)
             ELSE Range(last_run_datetime.t, now)
    ELSE Range(now - SevenDays, now)

\* compute_weekly_range that gives the window of the last 7 days whatever
\* the stored watermark is.
compute_weekly_range_IgnoresLastRun(last_run_datetime_str, now) ==
    Range(now - SevenDays, now)

\* compute_weekly_range(last_run_datetime_str), with now = datetime.now().
compute_weekly_range(last_run_datetime_str, now) ==
    IF Truthy(last_run_datetime_str)
    THEN LET last_run_datetime == strptime(last_run_datetime_str)
             start_datetime == AddSeconds(last_run_datetime.t, OneSecond)
         IN  IF last_run_datetime.err = "ValueError" THEN Range(now - SevenDays, now)
             ELSE IF last_run_datetime.err # "none" THEN Raised(last_run_datetime.err)
             ELSE IF start_datetime.err # "none" THEN Raised(start_datetime.err)
             ELSE Range(start_datetime.t, now)
    ELSE Range(now - SevenDays, now)

\* A delay that is made before retries only.
SleepsBefore_RetriesOnly(a) == IF a = 0 THEN 0 ELSE 1

\* The time.sleep calls made before the request of attempt a.
SleepsBefore(a) == 1

\* The elements of a list.
Elems(seq) == { seq[i] : i \in 1..Len(seq) }

\* `if primary_category not in categories: categories = [primary_category] + categories`
EntryCategories(primary, terms) ==
    IF primary \notin Elems(terms) THEN <<primary>> \o terms ELSE terms

\* The record appended to results for one entry.
ParseEntry(entry) ==
    [link |-> entry.link, published |-> entry.published,
     primary_category |-> entry.primary,
     categories |-> EntryCategories(entry.primary, entry.terms)]

\* x put into a list that is sorted by published, descending, behind every
\* record that is not older: the sort is stable.
RECURSIVE InsertDesc(_, _)
InsertDesc(x, sorted) ==
    IF sorted = << >> THEN <<x>>
    ELSE IF Head(sorted).published >= x.published
         THEN <<Head(sorted)>> \o InsertDesc(x, Tail(sorted))
         ELSE <<x>> \o sorted

RECURSIVE SortFrom(_, _)
SortFrom(seq, sorted) ==
    IF seq = << >> THEN sorted ELSE SortFrom(Tail(seq), InsertDesc(Head(seq), sorted))

\* A list left in the order of the feed.
SortByPublished_FeedOrder(results) == results

\* results.sort(key=lambda x: x["published"], reverse=True)
SortByPublished(results) == SortFrom(results, << >>)

\* The loop over the entries of the feed, then the sort.
ParseFeed(feed) == SortByPublished([i \in 1..Len(feed) |-> ParseEntry(feed[i])])

\* results_html: one block per result in the order given, or the sentence
\* "No new articles found ..." when there is no result.
Compose(search_results) ==
    [blocks |-> [i \in 1..Len(search_results) |->
                    [link |-> search_results[i].link,
                     published |-> search_results[i].published]],
     no_new |-> search_results = << >>]

\* `if response.status_code == 200:`
StatusOk(r) == r.status = "200"

\* The loop giving up one attempt early.
LastAttempt_Early(a) == a = 1

\* `if attempt == 2:`
LastAttempt(a) == a = 2

\* A handler that catches the exhausted retries only.
SearchCaught_FetchOnly(exc) == exc = "Exception"

\* `except Exception` around search_arxiv_api: every exception the search raises.
SearchCaught(exc) == exc \in {"Exception", "ParseError"}

\* Test mode that leaves the other flags as given.
AdjustFlags_Unchanged(a) == a

\* `if args.test:` sets print_only and no_update.
AdjustFlags(a) ==
    IF a.test THEN [a EXCEPT !.print_only = TRUE, !.no_update = TRUE] ELSE a

\* A persistence test that forgets the delivery outcome.
ShouldPersist_IgnoresSent(email_sent, no_update) == ~no_update

\* `if email_sent and not args.no_update:`
ShouldPersist(email_sent, no_update) == email_sent /\ ~no_update

\* The except clauses of __main__ around open, safe_load and process_user_data.
MainCatches(exc) == exc \in {"FileNotFoundError", "YAMLError"}

\* user_data['filepath'] = filepath, which only the directory branch does.
SetsFilepath(m) == m = "dir"

\* ----------------------------------------------------------------- actions
\* Control leaves the cycle of the current file: by return (exc = "none") or
\* by an exception, which __main__ catches or which ends the process.
Leave(exc, c) ==
    /\ cyc' = [c EXCEPT !.ended = IF exc = "none" THEN "returned"
                                  ELSE IF MainCatches(exc) THEN "caught" ELSE "raised"]
    /\ IF exc = "none" \/ MainCatches(exc)
       THEN /\ pc' = IF mode = "dir" THEN "listdir" ELSE "done"
            /\ idx' = IF mode = "dir" THEN idx + 1 ELSE idx
            /\ error' = error
       ELSE /\ pc' = "crashed"
            /\ idx' = idx
            /\ error' = exc

\* The program is started: argparse, load_config, then the branch on the mode.
StartRun(m, f, path, config_ok, dir_ok, elapsed) ==
    /\ runs < MaxRuns
    /\ runs' = runs + 1
    /\ clock' = clock + elapsed
    /\ mode' = m
    /\ cli' = f
    /\ args' = f
    /\ user_file' = IF m = "file" THEN path ELSE ""
    /\ idx' = 1
    /\ user_data' = NoUser
    /\ window' = NoWindow
    /\ attempt' = 0
    /\ response' = NoResponse
    /\ cyc' = NewCycle("")
    /\ error' = IF config_ok THEN "none" ELSE "ConfigError"
    /\ pc' = IF ~config_ok THEN "crashed"
             ELSE IF m = "file" THEN "openfile"
             ELSE IF dir_ok THEN "listdir" ELSE "done"
    /\ UNCHANGED << disk, last_ok, undelivered >>

\* What open + yaml.safe_load give for a file: an exception or the document.
LoadOutcome(f, opened) ==
    IF f \notin UserFiles THEN "FileNotFoundError"
    ELSE IF opened # "ok" THEN opened
    ELSE IF disk[f].doc = "badyaml" THEN "YAMLError"
    ELSE IF disk[f].doc = "empty" THEN "TypeError"
    ELSE "none"

\* The mapping with one more key.
WithKey(fields, k, v) ==
    [x \in DOMAIN fields \cup {k} |-> IF x = k THEN v ELSE fields[x]]

\* The mapping without a key: update_data.pop(k, None).
WithoutKey(fields, k) == [x \in DOMAIN fields \ {k} |-> fields[x]]

Loaded(f) ==
    [file |-> f, complete |-> RequiredKeys \subseteq DOMAIN disk[f].fields,
     last_run |-> disk[f].last_run,
     has_filepath |-> SetsFilepath(mode),
     fields |-> IF SetsFilepath(mode) THEN WithKey(disk[f].fields, "filepath", f)
                ELSE disk[f].fields]

\* A dump that keeps every key of user_data.
Dumped_KeepsFilepath(ud) ==
    [doc |-> "record", complete |-> ud.complete, last_run |-> ud.last_run,
     fields |-> ud.fields]

\* What yaml.safe_dump writes: a copy of user_data without the key filepath.
Dumped(ud) ==
    [doc |-> "record", complete |-> ud.complete, last_run |-> ud.last_run,
     fields |-> WithoutKey(ud.fields, "filepath")]

\* A watermark set to the start of the default window.
NewLastRun_WeekAgo(now) == strftime(now - SevenDays)

\* user_data["last_run"] = datetime.now().strftime("%Y-%m-%d %H:%M:%S")
NewLastRun(now) == strftime(now)

\* One iteration of `for filename in os.listdir(users_dir)` up to the call of
\* process_user_data.
NextEntry(opened) ==
    /\ pc = "listdir"
    /\ IF idx > Len(Listing)
       THEN /\ pc' = "done"
            /\ UNCHANGED << idx, user_data, cyc, error >>
       ELSE IF ~EndsWithYaml(Listing[idx])
       THEN /\ idx' = idx + 1
            /\ UNCHANGED << pc, user_data, cyc, error >>
       ELSE LET f == Listing[idx].stem
                exc == LoadOutcome(f, opened)
            IN  IF exc = "none"
                THEN /\ pc' = "process"
                     /\ user_data' = Loaded(f)
                     /\ cyc' = NewCycle(f)
                     /\ UNCHANGED << idx, error >>
                ELSE /\ user_data' = NoUser
                     /\ Leave(exc, NewCycle(f))
    /\ UNCHANGED << disk, clock, runs, mode, cli, args, user_file, window, attempt,
                    response, last_ok, undelivered >>

\* The --user-file branch up to the call of process_user_data.  An empty
\* document is passed on as None and user_data["user"] raises TypeError.
OpenUserFile(opened) ==
    /\ pc = "openfile"
    /\ LET exc == LoadOutcome(user_file, opened)
       IN  IF exc = "none"
           THEN /\ pc' = "process"
                /\ user_data' = Loaded(user_file)
                /\ cyc' = NewCycle(user_file)
                /\ UNCHANGED << idx, error >>
           ELSE /\ user_data' = NoUser
                /\ Leave(exc, NewCycle(user_file))
    /\ UNCHANGED << disk, clock, runs, mode, cli, args, user_file, window, attempt,
                    response, last_ok, undelivered >>

\* process_user_data up to the search: the three required keys, then
\* compute_weekly_range on user_data.get("last_run").
ProcessStart ==
    /\ pc = "process"
    /\ LET r == compute_weekly_range(user_data.last_run, clock)
           c == [cyc EXCEPT !.range_now = clock, !.range_src = user_data.last_run]
       IN  IF ~user_data.complete
           THEN /\ Leave("KeyError", cyc)
                /\ UNCHANGED << window, attempt >>
           ELSE IF r.raised # "none"
           THEN /\ Leave(r.raised, c)
                /\ UNCHANGED << window, attempt >>
           ELSE /\ window' = [date_from |-> r.date_from, date_to |-> r.date_to]
                /\ attempt' = 0
                /\ pc' = "search"
                /\ cyc' = [c EXCEPT !.ranged = TRUE]
                /\ UNCHANGED << idx, error >>
    /\ UNCHANGED << disk, clock, runs, mode, cli, args, user_data, user_file,
                    response, last_ok, undelivered >>

\* One iteration of `for attempt in range(3)`: sleep, request, then break,
\* go round again, or raise after the last attempt.
Attempt(r) ==
    /\ pc = "search"
    /\ attempt < MaxAttempts
    /\ clock' = clock + SleepsBefore(attempt) * SleepSeconds
    /\ response' = IF r.status = "exception" THEN response ELSE r
    /\ LET c == [cyc EXCEPT !.sleeps = @ + SleepsBefore(attempt), !.requests = @ + 1,
                            !.after200 = IF cyc.got200 THEN @ + 1 ELSE @,
                            !.got200 = @ \/ r.status = "200",
                            !.body = IF r.status = "200" THEN r.body ELSE @]
       IN  IF r.status # "exception" /\ StatusOk(r)
           THEN /\ pc' = "parse"
                /\ cyc' = c
                /\ UNCHANGED << attempt, idx, error >>
           ELSE IF LastAttempt(attempt)
           THEN /\ Leave(IF SearchCaught("Exception") THEN "none" ELSE "Exception",
                         [c EXCEPT !.search = "unavailable"])
                /\ UNCHANGED attempt
           ELSE /\ attempt' = attempt + 1
                /\ cyc' = c
                /\ UNCHANGED << pc, idx, error >>
    /\ UNCHANGED << disk, runs, mode, cli, args, user_data, user_file, window, last_ok, undelivered >>

\* The rest of search_arxiv_api: parse the feed (which raises on a malformed
\* body or entry), sort, return; then the digest is composed.
ParseResponse ==
    /\ pc = "parse"
    /\ IF response.body = "feed"
       THEN /\ pc' = "deliver"
            /\ LET search_results == ParseFeed(response.entries)
               IN  cyc' = [cyc EXCEPT !.search = "returned",
                                      !.entries = Len(search_results),
                                      !.results = search_results,
                                      !.message = Compose(search_results)]
            /\ UNCHANGED << idx, error >>
       ELSE Leave(IF SearchCaught("ParseError") THEN "none" ELSE "ParseError",
                  [cyc EXCEPT !.search = "parse_error"])
    /\ UNCHANGED << disk, clock, runs, mode, cli, args, user_data, user_file,
                    window, attempt, response, last_ok, undelivered >>

\* The flags are adjusted for test mode, then the message is printed or sent.
Deliver(smtp_ok) ==
    /\ pc = "deliver"
    /\ args' = AdjustFlags(args)
    /\ IF args'.print_only
       THEN cyc' = [cyc EXCEPT !.printed = @ + 1, !.email_sent = "true"]
       ELSE cyc' = [cyc EXCEPT !.smtp = @ + 1,
                               !.email_sent = IF smtp_ok THEN "true" ELSE "false"]
    /\ pc' = "persist"
    /\ undelivered' = [undelivered EXCEPT ![user_data.file] =
                           IF cyc'.email_sent = "false" THEN window ELSE NoWindow]
    /\ UNCHANGED << disk, clock, runs, mode, cli, idx, error, response, last_ok, user_data, user_file,
                    window, attempt >>

\* The end of process_user_data: last_run is set to now and the record is
\* written to user_data["filepath"] without that key.
Persist(opened) ==
    /\ pc = "persist"
    /\ IF ShouldPersist(cyc.email_sent = "true", args.no_update)
       THEN LET updated == [user_data EXCEPT !.last_run = NewLastRun(clock)]
                c == [cyc EXCEPT !.persist_now = clock]
            IN  /\ user_data' = updated
                /\ IF "filepath" \notin DOMAIN user_data.fields
                   THEN /\ Leave("KeyError", c)
                        /\ UNCHANGED << disk, last_ok >>
                   ELSE IF opened # "ok"
                   THEN /\ Leave(opened, [c EXCEPT !.refused = TRUE])
                        /\ UNCHANGED << disk, last_ok >>
                   ELSE /\ disk' = [disk EXCEPT ![user_data.file] = Dumped(updated)]
                        /\ last_ok' = [last_ok EXCEPT ![user_data.file] = window.date_to]
                        /\ Leave("none", [c EXCEPT !.written = TRUE])
       ELSE /\ Leave("none", cyc)
            /\ UNCHANGED << disk, user_data, last_ok >>
    /\ UNCHANGED << clock, runs, mode, cli, args, user_file, window, attempt, response,
                    undelivered >>

OpenOutcomes == {"ok", "FileNotFoundError", "PermissionError"}

\* The program is started for the first time, with any command line.
FirstRun(m, f, path, config_ok, dir_ok) ==
    /\ pc = "idle"
    /\ StartRun(m, f, path, config_ok, dir_ok, 0)

\* The program has ended and the same command line is started again (by
\* cron, say), in the same second or later.
Rerun(config_ok, dir_ok, elapsed) ==
    /\ pc \in {"done", "crashed"}
    /\ StartRun(mode, cli, user_file, config_ok, dir_ok, elapsed)

Step ==
    \/ \E opened \in OpenOutcomes : NextEntry(opened)
    \/ \E opened \in OpenOutcomes : OpenUserFile(opened)
    \/ ProcessStart
    \/ \E r \in Responses : Attempt(r)
    \/ ParseResponse
    \/ \E smtp_ok \in BOOLEAN : Deliver(smtp_ok)
    \/ \E opened \in OpenOutcomes : Persist(opened)

Start ==
    \E m \in {"dir", "file"}, f \in Flags, path \in UserFiles \cup {NoSuchFile},
       config_ok \in BOOLEAN, dir_ok \in BOOLEAN :
       FirstRun(m, f, path, config_ok, dir_ok)

\* One execution of the program over any user files.
Next ==
    \/ Start
    \/ Step

Spec == Init /\ [][Next]_vars

\* Repeated executions of one command line.  One user file holds a record
\* that loads; the other one does not parse, so the cycles are one user's.
CronDocs == { Record(lr) : lr \in {Absent, GarbageStr, Canon(ClockStart - 10)} }

InitCron ==
    /\ Init
    /\ disk["alice"] \in CronDocs
    /\ disk["bob"] = BadYaml

NextCron ==
    \/ Start
    \/ \E config_ok \in BOOLEAN, dir_ok \in BOOLEAN, elapsed \in {0, 1} :
          Rerun(config_ok, dir_ok, elapsed)
    \/ Step

SpecCron == InitCron /\ [][NextCron]_vars

\* One execution over a directory in which everything goes well, with any
\* feed in the response.
InitFeed ==
    /\ Init
    /\ disk["alice"] = Record(Absent)
    /\ disk["bob"] = BadYaml

NextFeed ==
    \/ FirstRun("dir", [test |-> FALSE, print_only |-> FALSE, no_update |-> FALSE],
                "", TRUE, TRUE)
    \/ NextEntry("ok")
    \/ ProcessStart
    \/ \E r \in FeedResponses : Attempt(r)
    \/ ParseResponse
    \/ Deliver(TRUE)
    \/ Persist("ok")

SpecFeed == InitFeed /\ [][NextFeed]_vars

\* ------------------------------------------------------------------ claims
\* Where a user file stands in the listing.
Pos(f) == CHOOSE i \in 1..Len(Listing) : Listing[i].stem = f

CycleEnded == cyc.file \in UserFiles /\ cyc.ended # "no"
Delivered == cyc.email_sent = "true"
Suppressed == cli.no_update \/ cli.test
RangeCalled == cyc.range_now # 0
Parses(v) == v.kind \in {"str_canon", "str_loose"}
Fallback == [date_from |-> Canon(cyc.range_now - SevenDays), date_to |-> Canon(cyc.range_now)]

\* C1: in every cycle, in either mode and under every flag combination, the
\* stored last_run is rewritten iff the message was delivered (sent or
\* printed) and neither --no-update nor --test is set.  A refusal of the file
\* system to open the file for writing is left out of the statement.
C1_RewrittenIffDeliveredAndNotSuppressed ==
    (CycleEnded /\ ~cyc.refused) => (cyc.written <=> (Delivered /\ ~Suppressed))

\* C2: of two consecutive cycles of one user that delivered and persisted,
\* the second one's window starts one second after the first one's window end.
C2_ConsecutiveWindowsAbut ==
    (CycleEnded /\ cyc.written /\ cyc.prev_to # Absent)
        => window.date_from = Canon(strptime(cyc.prev_to).t + OneSecond)

\* C3: a cycle whose SMTP send failed leaves the stored record as it was,
\* under every flag combination.
C3_FailedSendKeepsLastRun ==
    (cyc.file \in UserFiles /\ cyc.smtp > 0 /\ cyc.email_sent = "false")
        => /\ ~cyc.written
           /\ cyc.persist_now = 0
           /\ disk[cyc.file] = cyc.before

C3_Witness ==
    /\ CycleEnded
    /\ cyc.search = "returned"
    /\ cyc.email_sent = "false"
    /\ ~Suppressed
    /\ disk[cyc.file].last_run = Canon(ClockStart - 10)

\* C4: a cycle whose search failed (three failed attempts, or a response that
\* does not parse) sends and prints nothing, leaves the stored record as it
\* was, and returns to the caller, which goes on with the next entry.
C4_SearchFailureSkipsUser ==
    (cyc.file \in UserFiles /\ cyc.search \in {"unavailable", "parse_error"})
        => /\ cyc.smtp = 0 /\ cyc.printed = 0 /\ cyc.email_sent = "unset"
           /\ ~cyc.written /\ disk[cyc.file] = cyc.before
           /\ cyc.ended = "returned" /\ error = "none"
           /\ mode = "file" => pc = "done"
           /\ mode = "dir" => (pc \in {"listdir", "done"} /\ idx > Pos(cyc.file))

C4_Witness ==
    /\ mode = "dir"
    /\ cyc.file = "alice"
    /\ cyc.search = "unavailable"
    /\ cyc.requests = MaxAttempts
    /\ pc = "listdir"
    /\ idx = Pos("bob")
    /\ disk["bob"] = Record(Absent)

\* C5: with --test, whatever --print-only and --no-update are, no cycle opens
\* an SMTP connection, every cycle that reaches delivery prints its message,
\* and no cycle writes a user file.
C5_TestModePrintsAndNeverWrites ==
    (cli.test /\ cyc.file \in UserFiles)
        => /\ cyc.smtp = 0
           /\ cyc.email_sent # "unset" => (cyc.printed = 1 /\ Delivered)
           /\ ~cyc.written /\ cyc.persist_now = 0 /\ ~cyc.refused
           /\ disk[cyc.file] = cyc.before

C5_Witness ==
    /\ cli = [test |-> TRUE, print_only |-> FALSE, no_update |-> FALSE]
    /\ mode = "dir"
    /\ cyc.file = "bob"
    /\ cyc.printed = 1
    /\ cyc.ended = "returned"
    /\ pc = "done"

\* C6 as stated: at most 3 requests, none after the first 200, results are
\* returned iff a request returned 200, and the search failure is raised iff
\* all 3 requests failed.
C6_ReturnsIffSome200 ==
    /\ cyc.requests <= MaxAttempts /\ cyc.after200 = 0
    /\ (cyc.requests > 0 /\ pc \notin {"search", "parse"})
          => /\ cyc.search = "returned" <=> cyc.got200
             /\ cyc.search = "unavailable" <=> (cyc.requests = MaxAttempts /\ ~cyc.got200)

\* C6 amended: at most 3 requests, none after the first 200; results are
\* returned iff a request returned 200 and its body parses; the search
\* failure is raised iff all 3 requests failed.
C6_ReturnsIffSome200ThatParses ==
    /\ cyc.requests <= MaxAttempts /\ cyc.after200 = 0
    /\ (cyc.requests > 0 /\ pc \notin {"search", "parse"})
          => /\ cyc.search = "returned" <=> (cyc.got200 /\ cyc.body = "feed")
             /\ cyc.search = "parse_error" <=> (cyc.got200 /\ cyc.body = "malformed")
             /\ cyc.search = "unavailable" <=> (cyc.requests = MaxAttempts /\ ~cyc.got200)
    /\ (cyc.requests > 0 /\ pc = "search") => (~cyc.got200 /\ cyc.requests < MaxAttempts)

C6_Witness ==
    /\ cyc.requests = MaxAttempts
    /\ cyc.got200
    /\ cyc.search = "returned"
    /\ pc = "deliver"

\* C7: in directory mode nothing that happens while one user file is loaded
\* or processed ends the process: only a configuration failure may.
C7_NoUserFailureAbortsBatch ==
    mode = "dir" => (pc # "crashed" \/ error = "ConfigError")

\* C8: a record run with --user-file behaves as the same record run from a
\* directory: once delivered with persistence not suppressed, the record is
\* written back with the new last_run and no error leaves the cycle.
C8_SingleFileLikeDirectory ==
    (mode = "file" /\ CycleEnded /\ Delivered /\ ~Suppressed)
        => /\ cyc.written
           /\ disk[cyc.file] = Record(Canon(cyc.persist_now))
           /\ cyc.ended = "returned" /\ error = "none"

\* C9 as stated: every last_run string that parses gives start = W + 1 s and
\* end = now; an absent, empty or unparseable string gives start = now - 7 d.
C9_RangeForEveryWatermark ==
    RangeCalled =>
        /\ Parses(cyc.range_src)
              => /\ cyc.ranged
                 /\ window = [date_from |-> Canon(cyc.range_src.t + OneSecond),
                              date_to |-> Canon(cyc.range_now)]
        /\ cyc.range_src.kind \in {"absent", "str_empty", "str_garbage"}
              => (cyc.ranged /\ window = Fallback)

\* C9 amended: the same for every last_run string that parses to an instant
\* before the largest datetime; for that last instant the addition of one
\* second raises OverflowError and no range is returned.
C9_RangeForWatermarkBelowMax ==
    RangeCalled =>
        /\ (Parses(cyc.range_src) /\ cyc.range_src.t < DatetimeMax)
              => /\ cyc.ranged
                 /\ window = [date_from |-> Canon(cyc.range_src.t + OneSecond),
                              date_to |-> Canon(cyc.range_now)]
        /\ (Parses(cyc.range_src) /\ cyc.range_src.t = DatetimeMax)
              => (~cyc.ranged /\ error = "OverflowError")
        /\ cyc.range_src.kind \in {"absent", "str_empty", "str_garbage"}
              => (cyc.ranged /\ window = Fallback)

C9_Witness ==
    /\ cyc.range_src = Loose(ClockStart - 10)
    /\ cyc.ranged
    /\ window.date_from = Canon(ClockStart - 9)
    /\ pc = "search"

\* C10: a last_run that is present but is no canonical timestamp string,
\* a string or not, never makes the window computation raise: the 7-day
\* window is used and the cycle goes on to the search.
C10_InvalidLastRunFallsBack ==
    (RangeCalled /\ cyc.range_src.kind \in {"str_garbage", "datetime", "int"})
        => (cyc.ranged /\ window = Fallback /\ cyc.ended # "raised")

\* C11 as stated: the cycle that follows a cycle of the same user whose
\* delivery failed queries a window with the same start and an end that is
\* not earlier.
C11_FailedDeliveryRepeatsStart ==
    (cyc.ranged /\ cyc.prev_failed # NoWindow)
        => /\ window.date_from = cyc.prev_failed.date_from
           /\ window.date_to.t >= cyc.prev_failed.date_to.t

\* C11 amended: after a failed delivery the next window of the user ends no
\* earlier; it has the same start when the stored last_run parses, and
\* otherwise starts 7 days before the new cycle's clock, which is not before
\* the start of the failed cycle's window.
C11_FailedDeliveryRepeatsStartOfParsedWatermark ==
    (cyc.ranged /\ cyc.prev_failed # NoWindow)
        => /\ window.date_to.t >= cyc.prev_failed.date_to.t
           /\ Parses(cyc.range_src) => window.date_from = cyc.prev_failed.date_from
           /\ ~Parses(cyc.range_src)
                 => /\ window.date_from = Canon(cyc.range_now - SevenDays)
                    /\ window.date_from.t >= cyc.prev_failed.date_from.t

C11_Witness ==
    /\ cyc.ranged
    /\ cyc.prev_failed # NoWindow
    /\ cyc.range_src = Canon(ClockStart - 10)
    /\ window.date_from = cyc.prev_failed.date_from
    /\ window.date_to.t > cyc.prev_failed.date_to.t

C12_PrimaryCategoryIsFirst ==
    cyc.search = "returned"
        => \A i \in 1..Len(cyc.results) :
              /\ cyc.results[i].primary_category \in Elems(cyc.results[i].categories)
              /\ cyc.results[i].categories[1] = cyc.results[i].primary_category

\* C14: a search that returns no result still gives a message, with the
\* sentence for no new articles and no result block; one delivery is tried,
\* and when it succeeds and persistence is not suppressed the stored last_run
\* is set to the clock.  A refusal of the file system is left out.
C14_EmptyResultStillDeliversAndPersists ==
    (CycleEnded /\ cyc.search = "returned" /\ cyc.entries = 0 /\ ~cyc.refused)
        => /\ cyc.message.no_new /\ cyc.message.blocks = << >>
           /\ cyc.smtp + cyc.printed = 1
           /\ (Delivered /\ ~Suppressed)
                 => /\ cyc.written
                    /\ disk[cyc.file].last_run = Canon(cyc.persist_now)

\* C15: the results are in non-increasing order of published, there is
\* exactly one of them for each entry of the feed, with that entry's
\* published instant, and the blocks of the message are the results in the
\* same order.
C15_ResultsSortedOnePerEntry ==
    cyc.search = "returned"
        => /\ \A i, j \in 1..Len(cyc.results) :
                  i < j => cyc.results[i].published >= cyc.results[j].published
           /\ Len(cyc.results) = Len(response.entries)
           /\ \A k \in 1..Len(response.entries) :
                  /\ Cardinality({ i \in 1..Len(cyc.results) : cyc.results[i].link = k }) = 1
                  /\ \E i \in 1..Len(cyc.results) :
                        /\ cyc.results[i].link = response.entries[k].link
                        /\ cyc.results[i].published = response.entries[k].published
           /\ Len(cyc.message.blocks) = Len(cyc.results)
           /\ \A i \in 1..Len(cyc.results) :
                  /\ cyc.message.blocks[i].link = cyc.results[i].link
                  /\ cyc.message.blocks[i].published = cyc.results[i].published
           /\ cyc.message.no_new <=> cyc.results = << >>

C15_Witness ==
    /\ cyc.search = "returned"
    /\ Len(response.entries) = MaxFeedLen
    /\ response.entries[1].published < response.entries[2].published
    /\ cyc.results[1].link = 2
    /\ cyc.message.blocks[1].link = 2
    /\ pc = "deliver"

\* C16: each request is made right after one delay of 3 seconds, the first
\* request as well as the retries: as many delays as requests at every
\* moment, at most 3 of each, and the clock of the cycle has moved on by 3
\* seconds for each request.
C16_OneDelayBeforeEveryAttempt ==
    /\ cyc.sleeps = cyc.requests
    /\ cyc.requests <= MaxAttempts
    /\ (cyc.ranged /\ pc \in {"search", "parse", "deliver", "persist"})
          => clock = cyc.range_now + SleepSeconds * cyc.requests
    /\ pc \in {"parse", "deliver", "persist"} => cyc.requests >= 1

C16_Witness ==
    /\ cyc.requests = MaxAttempts
    /\ cyc.sleeps = MaxAttempts
    /\ clock = cyc.range_now + SleepSeconds * MaxAttempts
    /\ cyc.search = "unavailable"

\* C17: with --print-only and neither --test nor --no-update, a cycle whose
\* search succeeded opens no SMTP connection, has printed and so delivered its
\* message, and has set the stored last_run to the clock.  A refusal of the
\* file system is left out.
C17_PrintOnlyDeliversAndPersists ==
    (/\ cli = [test |-> FALSE, print_only |-> TRUE, no_update |-> FALSE]
     /\ CycleEnded /\ cyc.search = "returned" /\ ~cyc.refused)
        => /\ cyc.smtp = 0 /\ cyc.printed = 1 /\ Delivered
           /\ cyc.written
           /\ disk[cyc.file].last_run = Canon(cyc.persist_now)

\* C18: the window of a cycle that delivered and persisted starts strictly
\* after, and ends no earlier than, the end of the window of the user's last
\* cycle before it that delivered and persisted; so the same holds against
\* every earlier such cycle and no two of these windows share an instant.
C18_DeliveredWindowsDisjoint ==
    (cyc.file \in UserFiles /\ cyc.ranged /\ Delivered /\ cyc.written
        /\ cyc.prev_to # Absent)
        => /\ window.date_from.t > cyc.prev_to.t
           /\ window.date_to.t >= cyc.prev_to.t

C18_Witness ==
    /\ cyc.written /\ Delivered
    /\ cyc.prev_to # Absent
    /\ cyc.before.last_run.t > cyc.prev_to.t
    /\ window.date_from.t = cyc.before.last_run.t + OneSecond

\* C19: every change of a user file is the one write of a cycle of that
\* user, a cycle that has not written before, and it stores a last_run that
\* parses and is not earlier than a parseable last_run it replaces.
C19_LastRunNeverDecreases ==
    [][\A f \in UserFiles :
          disk'[f] # disk[f]
              => /\ cyc.file = f /\ cyc'.file = f
                 /\ ~cyc.written /\ cyc'.written
                 /\ Parses(disk'[f].last_run)
                 /\ Parses(disk[f].last_run)
                       => disk'[f].last_run.t >= disk[f].last_run.t]_vars

C19_Witness ==
    /\ cyc.written
    /\ runs = MaxRuns
    /\ Parses(cyc.before.last_run)
    /\ cyc.before.last_run.t > ClockStart
    /\ disk[cyc.file].last_run.t > cyc.before.last_run.t

\* C20 as stated: in every cycle the window starts no later than it ends.
C20_StartNotAfterEnd ==
    cyc.ranged => window.date_from.t <= window.date_to.t

\* C20 amended: with a stored last_run that is not later than the clock, the
\* window starts at most one second after its end, and it does start after
\* its end exactly when the stored last_run is the second the cycle begins in.
C20_StartAtMostOneSecondAfterEnd ==
    cyc.ranged
        => /\ window.date_from.t <= window.date_to.t + OneSecond
           /\ window.date_from.t > window.date_to.t
                 <=> (Parses(cyc.range_src) /\ cyc.range_src.t = cyc.range_now)

C20_Witness ==
    /\ cyc.ranged
    /\ cyc.range_src = Canon(cyc.range_now)
    /\ window.date_from.t = window.date_to.t + OneSecond
    /\ pc = "search"

====
